---- MODULE Spec2Model ----
(* The NestJS custom-provider tutorial application: the module definition  *)
(* with its four custom providers (value, class, factory, alias), the      *)
(* process start-up that instantiates them, and the one GET handler,       *)
(* AppController.getHello.  The unit test's testing module                 *)
(* (app.controller.spec.ts) is the second way the controller is built.     *)
(*                                                                         *)
(* Strings of the source that are written in Japanese are rendered here in *)
(* ASCII, TLA+ strings being ASCII; each such definition says so.          *)
(* The framework's container is modelled by what the four provider kinds   *)
(* mean: one instance per token, created once at start-up, in any order    *)
(* the injected dependencies allow.                                        *)
EXTENDS Integers, Sequences, FiniteSets, TLC

\* Number of GET requests served in one run of the process.
MaxRequests == 3

-----------------------------------------------------------------------------
(* JavaScript values *)

Undefined == [t |-> "undefined"]
Str(s) == [t |-> "string", s |-> s]
Num(n) == [t |-> "number", n |-> n]
Fn(name) == [t |-> "function", name |-> name]
Ref(i) == [t |-> "object", ref |-> i]

\* Reference to Object.prototype, which is not an object of this program's heap.
ObjectPrototypeRef == [t |-> "object", ref |-> 0]

IsString(v) == v.t = "string"

\* The properties every object literal inherits (those the model's keys reach).
ObjectPrototype ==
    [constructor |-> Fn("Object"), toString |-> Fn("toString"), __proto__ |-> ObjectPrototypeRef]

\* obj[key] on an object literal: own property, else inherited, else undefined.
PropertyGet(own, key) ==
    IF key \in DOMAIN own THEN own[key]
    ELSE IF key \in DOMAIN ObjectPrototype THEN ObjectPrototype[key]
    ELSE Undefined

\* Mutant: an undefined value is rendered as the empty string.
TemplateString_emptyUndefined(v) ==
    CASE v.t = "string" -> v.s
      [] v.t = "undefined" -> ""
      [] v.t = "function" -> "function " \o v.name \o "() { [native code] }"
      [] v.t = "object" -> "[object Object]"

\* `${v}` in a template literal, for the values a host can be here.
TemplateString(v) ==
    CASE v.t = "string" -> v.s
      [] v.t = "undefined" -> "undefined"
      [] v.t = "function" -> "function " \o v.name \o "() { [native code] }"
      [] v.t = "object" -> "[object Object]"

-----------------------------------------------------------------------------
(* The classes and constants of the application *)

\* process.env.NODE_ENV: unset, or a string.
EnvValues == {Undefined, Str("production"), Str("development")}

ConfigClasses == {"DevConfigService", "ProdConfigService"}

\* Keys a consumer of ConfigService may ask for.
Keys == {"host", "port", "apiEndpoint", "toString", "constructor"}

\* The keys the test double may be written to answer; the source's answers "host".
StubKeys == {"host", "port"}

AppConfig == [port |-> Num(3000), host |-> Str("localhost"), apiEndpoint |-> Str("/api")]

\* Mutant: the port is the number of AppConfig, not a string.
DevConfig_numericPort == [host |-> Str("localhost"), port |-> Num(3000)]

DevConfig == [host |-> Str("localhost"), port |-> Str("3000")]

ProdConfig == [host |-> Str("prod.example.com"), port |-> Str("80")]

DevConfigService_get(key) == PropertyGet(DevConfig, key)

ProdConfigService_get(key) == PropertyGet(ProdConfig, key)

\* The test double: get: (key) => (key === 'host' ? 'localhost' : undefined).
StubConfig_get(answers, key) == IF key = answers THEN Str("localhost") ELSE Undefined

\* AppService.getHello().
AppService_getHello == "Hello World!"

\* OptionsProvider.get(): a fresh options literal.
OptionsProvider_get == [host |-> Str("localhost"), port |-> Num(5432)]

\* Source: 'getHello() ga yobaremashita' written in Japanese.
GetHelloMessage == "getHello() called"

\* Source: 'de-tabe-su setsuzoku wo jisshi:' written in Japanese.
ConnectBanner == "database connect:"

\* LoggerService.log(message): console.log('LOG:', message).
LoggerService_log(out, message) == Append(out, <<Str("LOG:"), Str(message)>>)

\* DatabaseConnection.connect(): console.log(banner, this.options).
DatabaseConnection_connect(out, options) == Append(out, <<Str(ConnectBanner), options>>)

-----------------------------------------------------------------------------
(* State *)

VARIABLES
    root,       \* which module the process builds: "AppModule" or "TestingModule"
    stubKey,    \* the key the testing module's ConfigService double answers (unused by AppModule)
    env,        \* process.env.NODE_ENV
    envAtLoad,  \* the value of NODE_ENV the module file read (history; NotRead before)
    phase,      \* "boot", "defined", "initialized", "listening"
    useClass,   \* configServiceProvider.useClass, "none" until the module file is evaluated
    heap,       \* the objects created so far; a reference is an index
    container,  \* injection token -> reference of its instance (0: not yet resolved)
    console,    \* the lines written by console.log, as argument tuples
    trace,      \* the calls made, in order: [ev, target, arg, ret]
    requests,   \* GET requests served
    lastGet     \* the last ConfigService.get call by a consumer: [class, key, result]

vars == <<root, stubKey, env, envAtLoad, phase, useClass, heap, container, console, trace, requests, lastGet>>

AppTokens ==
    {"AppService", "OptionsProvider", "DATABASE_CONNECTION", "ConfigService",
     "APP_CONFIG", "LoggerService", "ALIAS_LOGGER", "AppController"}

TestTokens == {"AppService", "ConfigService", "ALIAS_LOGGER", "AppController"}

Tokens == IF root = "AppModule" THEN AppTokens ELSE TestTokens

Object(class, props) == [class |-> class, props |-> props]

\* A call: what was called, on which object, with which argument, returning what.
Event(ev, target, arg, ret) == [ev |-> ev, target |-> target, arg |-> arg, ret |-> ret]

Resolved(token) == container[token] # 0

\* The provider tokens of the module; the controller is built after all of them.
Providers == Tokens \ {"AppController"}

\* The module file has not read NODE_ENV (yet, or at all in the testing module).
NotRead == [t |-> "unread"]

\* No consumer has called ConfigService.get yet.
NoGet == [class |-> "none", key |-> "", result |-> Undefined]

Init ==
    /\ root \in {"AppModule", "TestingModule"}
    /\ stubKey \in (IF root = "TestingModule" THEN StubKeys ELSE {"host"})
    /\ env \in EnvValues
    /\ envAtLoad = NotRead
    /\ phase = "boot"
    /\ useClass = "none"
    /\ heap = <<>>
    /\ container = [tk \in AppTokens |-> 0]
    /\ console = <<>>
    /\ trace = <<>>
    /\ requests = 0
    /\ lastGet = NoGet

-----------------------------------------------------------------------------
(* Method dispatch on the objects the controller is given *)

ConfigService_get(obj, key) ==
    CASE obj.class = "DevConfigService" -> DevConfigService_get(key)
      [] obj.class = "ProdConfigService" -> ProdConfigService_get(key)
      [] obj.class = "ConfigStub" -> StubConfig_get(obj.props.answers.s, key)

\* The testing module's logger double is { log: (msg) => {} }.
Logger_log(obj, out, message) ==
    IF obj.class = "LoggerService" THEN LoggerService_log(out, message) ELSE out

-----------------------------------------------------------------------------
(* Start-up of the application module *)

\* Mutant: the branches of the conditional are swapped.
SelectConfigClass_swapped(e) ==
    IF e = Str("production") THEN "DevConfigService" ELSE "ProdConfigService"

\* process.env.NODE_ENV === 'production' ? ProdConfigService : DevConfigService
SelectConfigClass(e) == IF e = Str("production") THEN "ProdConfigService" ELSE "DevConfigService"

\* The AppConfig constant is the first object the module file's imports create.
AppConfigRef == 1

\* The module file is evaluated: its imports run and the provider literals are built.
LoadModule ==
    /\ root = "AppModule"
    /\ phase = "boot"
    /\ phase' = "defined"
    /\ useClass' = SelectConfigClass(env)
    /\ envAtLoad' = env
    /\ heap' = Append(heap, Object("Object", AppConfig))
    /\ UNCHANGED <<root, stubKey, env, container, console, trace, requests, lastGet>>

\* A plain class provider: AppService, OptionsProvider, LoggerService.
ClassProvider(token) ==
    /\ root = "AppModule"
    /\ phase = "defined"
    /\ token \in {"AppService", "OptionsProvider", "LoggerService"}
    /\ ~Resolved(token)
    /\ heap' = Append(heap, Object(token, <<>>))
    /\ container' = [container EXCEPT ![token] = Len(heap) + 1]
    /\ UNCHANGED <<root, stubKey, env, envAtLoad, phase, useClass, console, trace, requests, lastGet>>

\* Mutant: the factory returns the connection without calling connect().
connectionProvider_noConnect ==
    /\ root = "AppModule"
    /\ phase = "defined"
    /\ ~Resolved("DATABASE_CONNECTION")
    /\ Resolved("OptionsProvider")
    /\ LET options == Len(heap) + 1
           connection == Len(heap) + 2
       IN  /\ heap' = heap \o <<Object("Object", OptionsProvider_get),
                                Object("DatabaseConnection", [options |-> Ref(options)])>>
           /\ container' = [container EXCEPT !["DATABASE_CONNECTION"] = connection]
    /\ UNCHANGED <<root, stubKey, env, envAtLoad, phase, useClass, console, trace, requests, lastGet>>

\* useFactory of 'DATABASE_CONNECTION', injected with the OptionsProvider instance.
connectionProvider ==
    /\ root = "AppModule"
    /\ phase = "defined"
    /\ ~Resolved("DATABASE_CONNECTION")
    /\ Resolved("OptionsProvider")
    /\ LET options == Len(heap) + 1
           connection == Len(heap) + 2
       IN  /\ heap' = heap \o <<Object("Object", OptionsProvider_get),
                                Object("DatabaseConnection", [options |-> Ref(options)])>>
           /\ console' = DatabaseConnection_connect(console, Ref(options))
           /\ trace' = Append(trace, Event("connect", connection, Ref(options), Undefined))
           /\ container' = [container EXCEPT !["DATABASE_CONNECTION"] = connection]
    /\ UNCHANGED <<root, stubKey, env, envAtLoad, phase, useClass, requests, lastGet>>

\* Mutant: the class is chosen from NODE_ENV when the instance is created.
configServiceProvider_lazy ==
    /\ root = "AppModule"
    /\ phase = "defined"
    /\ ~Resolved("ConfigService")
    /\ heap' = Append(heap, Object(SelectConfigClass(env), <<>>))
    /\ container' = [container EXCEPT !["ConfigService"] = Len(heap) + 1]
    /\ UNCHANGED <<root, stubKey, env, envAtLoad, phase, useClass, console, trace, requests, lastGet>>

\* useClass of ConfigService: an instance of the class chosen when the file was evaluated.
configServiceProvider ==
    /\ root = "AppModule"
    /\ phase = "defined"
    /\ ~Resolved("ConfigService")
    /\ heap' = Append(heap, Object(useClass, <<>>))
    /\ container' = [container EXCEPT !["ConfigService"] = Len(heap) + 1]
    /\ UNCHANGED <<root, stubKey, env, envAtLoad, phase, useClass, console, trace, requests, lastGet>>

\* Mutant: the provider's value is a copy of the constant ({ ...AppConfig }).
appConfigProvider_copy ==
    /\ root = "AppModule"
    /\ phase = "defined"
    /\ ~Resolved("APP_CONFIG")
    /\ heap' = Append(heap, Object("Object", AppConfig))
    /\ container' = [container EXCEPT !["APP_CONFIG"] = Len(heap) + 1]
    /\ UNCHANGED <<root, stubKey, env, envAtLoad, phase, useClass, console, trace, requests, lastGet>>

\* useValue of 'APP_CONFIG': the constant itself.
appConfigProvider ==
    /\ root = "AppModule"
    /\ phase = "defined"
    /\ ~Resolved("APP_CONFIG")
    /\ container' = [container EXCEPT !["APP_CONFIG"] = AppConfigRef]
    /\ UNCHANGED <<root, stubKey, env, envAtLoad, phase, useClass, heap, console, trace, requests, lastGet>>

\* Mutant: the alias is registered with useClass and gets an instance of its own.
loggerAliasProvider_useClass ==
    /\ root = "AppModule"
    /\ phase = "defined"
    /\ ~Resolved("ALIAS_LOGGER")
    /\ Resolved("LoggerService")
    /\ heap' = Append(heap, Object("LoggerService", <<>>))
    /\ container' = [container EXCEPT !["ALIAS_LOGGER"] = Len(heap) + 1]
    /\ UNCHANGED <<root, stubKey, env, envAtLoad, phase, useClass, console, trace, requests, lastGet>>

\* useExisting of 'ALIAS_LOGGER': the instance LoggerService resolves to.
loggerAliasProvider ==
    /\ root = "AppModule"
    /\ phase = "defined"
    /\ ~Resolved("ALIAS_LOGGER")
    /\ Resolved("LoggerService")
    /\ container' = [container EXCEPT !["ALIAS_LOGGER"] = container["LoggerService"]]
    /\ UNCHANGED <<root, stubKey, env, envAtLoad, phase, useClass, heap, console, trace, requests, lastGet>>

-----------------------------------------------------------------------------
(* Start-up of the testing module *)

ConfigStubRef == 1

LoggerStubRef == 2

\* Test.createTestingModule({...}): the two doubles are built with the metadata.
CreateTestingModule ==
    /\ root = "TestingModule"
    /\ phase = "boot"
    /\ phase' = "defined"
    /\ heap' = heap \o <<Object("ConfigStub", [answers |-> Str(stubKey)]),
                         Object("LoggerStub", <<>>)>>
    /\ UNCHANGED <<root, stubKey, env, envAtLoad, useClass, container, console, trace, requests, lastGet>>

TestAppService ==
    /\ root = "TestingModule"
    /\ phase = "defined"
    /\ ~Resolved("AppService")
    /\ heap' = Append(heap, Object("AppService", <<>>))
    /\ container' = [container EXCEPT !["AppService"] = Len(heap) + 1]
    /\ UNCHANGED <<root, stubKey, env, envAtLoad, phase, useClass, console, trace, requests, lastGet>>

\* The two useValue providers of the testing module.
TestValueProvider(token) ==
    /\ root = "TestingModule"
    /\ phase = "defined"
    /\ token \in {"ConfigService", "ALIAS_LOGGER"}
    /\ ~Resolved(token)
    /\ container' = [container EXCEPT
                       ![token] = IF token = "ConfigService" THEN ConfigStubRef ELSE LoggerStubRef]
    /\ UNCHANGED <<root, stubKey, env, envAtLoad, phase, useClass, heap, console, trace, requests, lastGet>>

-----------------------------------------------------------------------------
(* The controller and the requests *)

\* new AppController(appService, configService, @Inject('ALIAS_LOGGER') logger)
AppController_constructor ==
    /\ phase = "defined"
    /\ ~Resolved("AppController")
    /\ \A tk \in Providers : Resolved(tk)
    /\ heap' = Append(heap, Object("AppController",
                   [appService |-> Ref(container["AppService"]),
                    configService |-> Ref(container["ConfigService"]),
                    logger |-> Ref(container["ALIAS_LOGGER"])]))
    /\ container' = [container EXCEPT !["AppController"] = Len(heap) + 1]
    /\ UNCHANGED <<root, stubKey, env, envAtLoad, phase, useClass, console, trace, requests, lastGet>>

\* Every provider and the controller exist: the module's dependencies are initialized.
DependenciesInitialized ==
    /\ phase = "defined"
    /\ \A tk \in Tokens : Resolved(tk)
    /\ phase' = "initialized"
    /\ trace' = Append(trace, Event("initialized", 0, Str(root), Undefined))
    /\ UNCHANGED <<root, stubKey, env, envAtLoad, useClass, heap, container, console, requests, lastGet>>

\* The route is mapped and the application accepts requests.
Listen ==
    /\ phase = "initialized"
    /\ phase' = "listening"
    /\ UNCHANGED <<root, stubKey, env, envAtLoad, useClass, heap, container, console, trace, requests, lastGet>>

\* Mutant: the handler looks up the key 'port'.
AppController_getHello_port ==
    /\ phase = "listening"
    /\ requests < MaxRequests
    /\ LET this == heap[container["AppController"]].props
           logger == this.logger.ref
           configService == this.configService.ref
           host == ConfigService_get(heap[configService], "port")
           body == AppService_getHello \o " - Config Host: " \o TemplateString(host)
       IN  /\ console' = Logger_log(heap[logger], console, GetHelloMessage)
           /\ trace' = trace \o <<Event("log", logger, Str(GetHelloMessage), Undefined),
                                  Event("get", configService, Str("port"), host),
                                  Event("response", container["AppController"], Undefined, Str(body))>>
    /\ requests' = requests + 1
    /\ UNCHANGED <<root, stubKey, env, envAtLoad, phase, useClass, heap, container, lastGet>>

\* Mutant: the handler logs after the configuration lookup.
AppController_getHello_logLast ==
    /\ phase = "listening"
    /\ requests < MaxRequests
    /\ LET this == heap[container["AppController"]].props
           logger == this.logger.ref
           configService == this.configService.ref
           host == ConfigService_get(heap[configService], "host")
           body == AppService_getHello \o " - Config Host: " \o TemplateString(host)
       IN  /\ console' = Logger_log(heap[logger], console, GetHelloMessage)
           /\ trace' = trace \o <<Event("get", configService, Str("host"), host),
                                  Event("log", logger, Str(GetHelloMessage), Undefined),
                                  Event("response", container["AppController"], Undefined, Str(body))>>
    /\ requests' = requests + 1
    /\ UNCHANGED <<root, stubKey, env, envAtLoad, phase, useClass, heap, container, lastGet>>

\* Mutant: the handler picks the implementation from NODE_ENV at request time.
AppController_getHello_readsEnv ==
    /\ phase = "listening"
    /\ requests < MaxRequests
    /\ LET this == heap[container["AppController"]].props
           logger == this.logger.ref
           configService == this.configService.ref
           host == ConfigService_get(Object(SelectConfigClass(env), <<>>), "host")
           body == AppService_getHello \o " - Config Host: " \o TemplateString(host)
       IN  /\ console' = Logger_log(heap[logger], console, GetHelloMessage)
           /\ trace' = trace \o <<Event("log", logger, Str(GetHelloMessage), Undefined),
                                  Event("get", configService, Str("host"), host),
                                  Event("response", container["AppController"], Undefined, Str(body))>>
    /\ requests' = requests + 1
    /\ UNCHANGED <<root, stubKey, env, envAtLoad, phase, useClass, heap, container, lastGet>>

\* @Get() getHello(): string
AppController_getHello ==
    /\ phase = "listening"
    /\ requests < MaxRequests
    /\ LET this == heap[container["AppController"]].props
           logger == this.logger.ref
           configService == this.configService.ref
           host == ConfigService_get(heap[configService], "host")
           body == AppService_getHello \o " - Config Host: " \o TemplateString(host)
       IN  /\ console' = Logger_log(heap[logger], console, GetHelloMessage)
           /\ trace' = trace \o <<Event("log", logger, Str(GetHelloMessage), Undefined),
                                  Event("get", configService, Str("host"), host),
                                  Event("response", container["AppController"], Undefined, Str(body))>>
    /\ requests' = requests + 1
    /\ UNCHANGED <<root, stubKey, env, envAtLoad, phase, useClass, heap, container, lastGet>>

\* get(key) is called on an instance of one of the two implementations.
ConfigGet(class, key) ==
    /\ lastGet' = [class |-> class, key |-> key,
                   result |-> ConfigService_get(Object(class, <<>>), key)]
    /\ lastGet' # lastGet
    /\ UNCHANGED <<root, stubKey, env, envAtLoad, phase, useClass, heap, container, console, trace, requests>>

\* The environment variable is reassigned, at any time.
SetEnv(v) ==
    /\ v # env
    /\ env' = v
    /\ UNCHANGED <<root, stubKey, envAtLoad, phase, useClass, heap, container, console, trace, requests, lastGet>>

Next ==
    \/ LoadModule
    \/ \E token \in AppTokens : ClassProvider(token)
    \/ connectionProvider
    \/ configServiceProvider
    \/ appConfigProvider
    \/ loggerAliasProvider
    \/ CreateTestingModule
    \/ TestAppService
    \/ \E token \in TestTokens : TestValueProvider(token)
    \/ AppController_constructor
    \/ DependenciesInitialized
    \/ Listen
    \/ AppController_getHello
    \/ \E class \in ConfigClasses, key \in Keys : ConfigGet(class, key)
    \/ \E v \in EnvValues : SetEnv(v)

Spec == Init /\ [][Next]_vars

-----------------------------------------------------------------------------
(* Properties *)

\* Positions of the calls of one kind in the trace.
EventsOf(ev) == {i \in 1..Len(trace) : trace[i].ev = ev}

ResponseBodies == {trace[i].ret : i \in EventsOf("response")}

InApp == root = "AppModule"

\* C1: every response of getHello is the greeting of AppService.getHello(),
\* then ' - Config Host: ', then the value the ConfigService returned for the
\* key 'host'; when that value is 'localhost' the response is the literal
\* 'Hello World! - Config Host: localhost'.
C1_ResponseIsGreetingAndHost ==
    \A i \in EventsOf("response") :
        /\ i > 1
        /\ trace[i - 1].ev = "get"
        /\ trace[i - 1].arg = Str("host")
        /\ trace[i - 1].target = container["ConfigService"]
        /\ IsString(trace[i - 1].ret) =>
               trace[i].ret = Str("Hello World!" \o " - Config Host: " \o trace[i - 1].ret.s)
        /\ trace[i - 1].ret = Str("localhost") =>
               trace[i].ret = Str("Hello World! - Config Host: localhost")

\* The test's case: the double answers 'host' with 'localhost' and a request was served.
C1_Witness ==
    /\ root = "TestingModule"
    /\ stubKey = "host"
    /\ Str("Hello World! - Config Host: localhost") \in ResponseBodies

\* C2: in the application module ConfigService is bound to ProdConfigService
\* when NODE_ENV was 'production' as the module file was evaluated and to
\* DevConfigService for every other value, unset included; the host in every
\* response is 'prod.example.com' in the first case and 'localhost' otherwise.
C2_ClassFollowsNodeEnvAtLoad ==
    (InApp /\ phase # "boot") =>
        LET prod == envAtLoad = Str("production")
        IN  /\ useClass = (IF prod THEN "ProdConfigService" ELSE "DevConfigService")
            /\ Resolved("ConfigService") => heap[container["ConfigService"]].class = useClass
            /\ \A b \in ResponseBodies :
                   /\ prod <=> b = Str("Hello World! - Config Host: prod.example.com")
                   /\ ~prod <=> b = Str("Hello World! - Config Host: localhost")

\* A production start that has answered a request.
C2_Witness ==
    /\ InApp
    /\ envAtLoad = Str("production")
    /\ ResponseBodies # {}

\* C3: 'ALIAS_LOGGER' and LoggerService resolve to one and the same instance,
\* there is never a second LoggerService object, and every log call of the
\* controller is a call on that LoggerService instance.
C3_AliasIsTheLoggerInstance ==
    InApp =>
        /\ Resolved("ALIAS_LOGGER") =>
               /\ Resolved("LoggerService")
               /\ container["ALIAS_LOGGER"] = container["LoggerService"]
        /\ Cardinality({i \in 1..Len(heap) : heap[i].class = "LoggerService"}) <= 1
        /\ \A i \in EventsOf("log") :
               /\ trace[i].target = container["LoggerService"]
               /\ heap[trace[i].target].class = "LoggerService"

\* A request has logged through the alias.
C3_Witness ==
    /\ InApp
    /\ Resolved("ALIAS_LOGGER")
    /\ EventsOf("log") # {}

\* The console lines written by DatabaseConnection.connect().
ConnectLines == {i \in 1..Len(console) : console[i][1] = Str(ConnectBanner)}

\* C4: the factory of 'DATABASE_CONNECTION' runs exactly once, at start-up: it
\* builds one DatabaseConnection from the options of OptionsProvider.get() and
\* calls connect() on it; that call precedes the report that the dependencies
\* are initialized and every request, and stays the only one however many
\* requests are served.
C4_FactoryRunsOnceAtStartup ==
    InApp =>
        /\ Cardinality(EventsOf("connect")) <= 1
        /\ Cardinality(ConnectLines) = Cardinality(EventsOf("connect"))
        /\ Cardinality({i \in 1..Len(heap) : heap[i].class = "DatabaseConnection"})
               = Cardinality(EventsOf("connect"))
        /\ Resolved("DATABASE_CONNECTION") <=> EventsOf("connect") # {}
        /\ phase \in {"initialized", "listening"} => Cardinality(EventsOf("connect")) = 1
        /\ \A c \in EventsOf("connect") :
               /\ trace[c].target = container["DATABASE_CONNECTION"]
               /\ heap[trace[c].target].class = "DatabaseConnection"
               /\ heap[trace[c].target].props.options = trace[c].arg
               /\ heap[trace[c].arg.ref].props = [host |-> Str("localhost"), port |-> Num(5432)]
               /\ \A j \in EventsOf("initialized") \cup EventsOf("log") \cup EventsOf("response") : c < j

\* Several requests served after the one connect().
C4_Witness ==
    /\ InApp
    /\ requests >= 2
    /\ Cardinality(EventsOf("connect")) = 1

\* C5: every getHello() calls log() on the injected logger exactly once, with
\* the message of the source, before the configuration lookup and before the
\* response; after n requests there are exactly n such log calls.
C5_OneLogPerRequestFirst ==
    /\ Cardinality(EventsOf("log")) = requests
    /\ Cardinality(EventsOf("get")) = requests
    /\ Cardinality(EventsOf("response")) = requests
    /\ \A i \in EventsOf("response") :
           /\ i > 2
           /\ trace[i - 1].ev = "get"
           /\ trace[i - 2].ev = "log"
           /\ trace[i - 2].arg = Str(GetHelloMessage)
           /\ trace[i - 2].target = container["ALIAS_LOGGER"]
    /\ InApp => Cardinality({i \in 1..Len(console) : console[i] = <<Str("LOG:"), Str(GetHelloMessage)>>})
                    = requests

C5_Witness ==
    /\ requests >= 2
    /\ Cardinality(EventsOf("log")) >= 2

\* C6: 'APP_CONFIG' resolves to the AppConfig constant object itself, with its
\* host, port and apiEndpoint as declared, and no step (start-up, the database
\* factory, any request) changes an existing object or rebinds a resolved token.
C6_AppConfigIsBoundAndNothingMutates ==
    [][/\ (InApp /\ Resolved("APP_CONFIG"))' =>
              /\ container'["APP_CONFIG"] = AppConfigRef
              /\ heap'[container'["APP_CONFIG"]].props =
                     [port |-> Num(3000), host |-> Str("localhost"), apiEndpoint |-> Str("/api")]
       /\ Len(heap') >= Len(heap)
       /\ \A i \in 1..Len(heap) : heap'[i] = heap[i]
       /\ \A tk \in AppTokens : Resolved(tk) => container'[tk] = container[tk]]_vars

\* The value is bound, the factory has run and requests were served.
C6_Witness ==
    /\ InApp
    /\ Resolved("APP_CONFIG")
    /\ Resolved("DATABASE_CONNECTION")
    /\ requests >= 2

\* C7: the two implementations are interchangeable: each returns a string
\* exactly for the keys 'host' and 'port' (Dev 'localhost' and '3000', Prod
\* 'prod.example.com' and '80'), and for every key the two return the same
\* kind of value and differ in nothing but those strings.
C7_DevAndProdInterchangeable ==
    lastGet.class \in ConfigClasses =>
        LET key == lastGet.key
            other == IF lastGet.class = "DevConfigService"
                     THEN ProdConfigService_get(key) ELSE DevConfigService_get(key)
        IN  /\ IsString(lastGet.result) <=> key \in {"host", "port"}
            /\ (lastGet.class = "DevConfigService" /\ key = "host") => lastGet.result = Str("localhost")
            /\ (lastGet.class = "DevConfigService" /\ key = "port") => lastGet.result = Str("3000")
            /\ (lastGet.class = "ProdConfigService" /\ key = "host") => lastGet.result = Str("prod.example.com")
            /\ (lastGet.class = "ProdConfigService" /\ key = "port") => lastGet.result = Str("80")
            /\ other.t = lastGet.result.t
            /\ key \notin {"host", "port"} => other = lastGet.result

C7_Witness ==
    /\ lastGet.class = "ProdConfigService"
    /\ lastGet.key = "port"
    /\ lastGet.result = Str("80")

\* Whether a response was produced from an undefined host ends in 'Config Host: undefined'.
UndefinedHostAnswered ==
    \A i \in EventsOf("response") :
        trace[i - 1].ret = Undefined => trace[i].ret = Str("Hello World! - Config Host: undefined")

\* C8 as stated: for every key other than 'host' and 'port' both
\* implementations return undefined, and getHello() given an undefined host
\* answers with a response ending in 'Config Host: undefined'.
C8_Original ==
    /\ (lastGet.class \in ConfigClasses /\ lastGet.key \notin {"host", "port"}) =>
           lastGet.result = Undefined
    /\ UndefinedHostAnswered

\* C8 amended: for a key other than 'host' and 'port' both implementations
\* return without error a value that is not a string: undefined, unless the
\* key names a property every object inherits (such as 'toString' or
\* 'constructor'), for which it is that inherited value; getHello() given an
\* undefined host answers with a response ending in 'Config Host: undefined'.
C8_MissingKeyIsUndefinedOrInherited ==
    /\ (lastGet.class \in ConfigClasses /\ lastGet.key \notin {"host", "port"}) =>
           /\ ~IsString(lastGet.result)
           /\ lastGet.key \notin {"toString", "constructor", "__proto__"} =>
                  lastGet.result = Undefined
           /\ lastGet.key = "toString" => lastGet.result = Fn("toString")
           /\ lastGet.key = "constructor" => lastGet.result = Fn("Object")
    /\ UndefinedHostAnswered

\* A key neither implementation declares was asked for, and a request was
\* answered with a configuration that has no host.
C8_Witness ==
    /\ lastGet.class \in ConfigClasses
    /\ lastGet.key = "apiEndpoint"
    /\ lastGet.result = Undefined
    /\ \E i \in EventsOf("response") :
           /\ trace[i - 1].ret = Undefined
           /\ trace[i].ret = Str("Hello World! - Config Host: undefined")

\* The host literal of an implementation class.
HostOf(class) == IF class = "ProdConfigService" THEN "prod.example.com" ELSE "localhost"

\* C9: the implementation is chosen once, as the module file is evaluated:
\* the choice never changes afterwards, the instance bound to ConfigService is
\* of the chosen class, and every later response carries the host of that
\* class whatever NODE_ENV has become since.
C9_ChoiceMadeOnceAtLoad ==
    [][InApp =>
          /\ useClass # "none" => useClass' = useClass
          /\ Resolved("ConfigService")' => heap'[container'["ConfigService"]].class = useClass'
          /\ requests' # requests =>
                 trace'[Len(trace')].ret = Str("Hello World! - Config Host: " \o HostOf(useClass))]_vars

\* A request answered after NODE_ENV changed to a value that selects the other class.
C9_Witness ==
    /\ InApp
    /\ ResponseBodies # {}
    /\ env # envAtLoad
    /\ useClass = "DevConfigService"
    /\ env = Str("production")

\* C10: getHello() is stateless and deterministic: all responses of one run
\* are the same string, and a request changes nothing but the log (one more
\* log call, hence one more console line of the LoggerService).
C10_RequestsAreStateless ==
    [][requests' # requests =>
          /\ Cardinality(ResponseBodies') = 1
          /\ UNCHANGED <<root, stubKey, env, envAtLoad, phase, useClass, heap, container, lastGet>>
          /\ Cardinality(EventsOf("log")') = Cardinality(EventsOf("log")) + 1
          /\ console' = IF InApp THEN Append(console, <<Str("LOG:"), Str(GetHelloMessage)>>)
                        ELSE console]_vars

\* The last of several requests, served after NODE_ENV changed.
C10_Witness ==
    /\ requests = MaxRequests
    /\ Cardinality(ResponseBodies) = 1
    /\ envAtLoad # NotRead
    /\ env # envAtLoad

====
